---- MODULE Spec2Model ----
(***************************************************************************)
(* Model of run(query) in myougiden_api.py: the query-resolution engine    *)
(* that turns one query string and the command-line options into an        *)
(* ordered list of search conditions and hands it to search.guess.         *)
(***************************************************************************)
EXTENDS Integers, Sequences, FiniteSets, TLC

(* ------------------------------------------------------------------ *)
(* Bounds of the explored input space.                                  *)
(* ------------------------------------------------------------------ *)
MaxWords == 2

(* ------------------------------------------------------------------ *)
(* Characters.  A string is a sequence of character tokens.            *)
(*   "a" "o" "u"  lowercase Latin vowels (kana-convertible)             *)
(*   "A"          an uppercase Latin letter                            *)
(*   "."          Latin punctuation with regular-expression meaning     *)
(*   " "          the separator inserted by ' '.join                    *)
(*   "o-"         o with macron (romaji only, outside Latin-1)          *)
(*   "h_*"        hiragana, "k_*" katakana, "kanji" a CJK ideograph     *)
(* ------------------------------------------------------------------ *)
LatinChars == {"a", "o", "u", "A", ".", " "}
MacronChars == {"o-"}
HiraganaChars == {"h_a", "h_o", "h_u"}
KatakanaChars == {"k_a", "k_o", "k_u"}
InputChars == {"a", "A", ".", "o-", "h_a", "kanji"}

RECURSIVE SeqsUpTo(_, _)
SeqsUpTo(S, n) ==
    IF n = 0 THEN {<<>>}
    ELSE LET shorter == SeqsUpTo(S, n - 1)
         IN  shorter \cup {Append(s, x) : s \in shorter, x \in S}

(* a word of the query: empty or one character *)
Words == {<<>>} \cup {<<c>> : c \in InputChars}
QueryArgs == SeqsUpTo(Words, MaxWords)

(* ' '.join(args.query) *)
RECURSIVE Join(_)
Join(ws) ==
    IF Len(ws) = 0 THEN <<>>
    ELSE IF Len(ws) = 1 THEN ws[1]
    ELSE ws[1] \o <<" ">> \o Join(Tail(ws))

(* re.search("[A-Z]", s) *)
HasUpper(s) == \E i \in 1..Len(s) : s[i] = "A"

(* texttools predicates used by run *)
is_latin(s) == \A i \in 1..Len(s) : s[i] \in LatinChars
is_romaji(s) == \A i \in 1..Len(s) : s[i] \in LatinChars \cup MacronChars
is_kana(s) == \A i \in 1..Len(s) : s[i] \in HiraganaChars \cup KatakanaChars
has_regexp_special(s) == \E i \in 1..Len(s) : s[i] = "."

(* texttools.expand_romaji: every macron vowel is spelled out, the most  *)
(* likely spelling first; a string without macrons expands to itself.    *)
RECURSIVE expand_romaji(_)
expand_romaji(s) ==
    IF Len(s) = 0 THEN << <<>> >>
    ELSE LET rest == expand_romaji(Tail(s))
             pre(h) == [i \in 1..Len(rest) |-> h \o rest[i]]
         IN  IF Head(s) = "o-"
             THEN pre(<<"o", "u">>) \o pre(<<"o", "o">>)
             ELSE pre(<<Head(s)>>)

Lower(c) == IF c = "A" THEN "a" ELSE c

HiraOf(c) ==
    CASE c = "a" -> "h_a" [] c = "o" -> "h_o" [] c = "u" -> "h_u" [] OTHER -> c

KataOf(c) ==
    CASE c = "a" -> "k_a" [] c = "o" -> "k_o" [] c = "u" -> "k_u" [] OTHER -> c

(* romkan.to_hiragana / romkan.to_katakana: lowercase, then replace every *)
(* romaji syllable by its kana; anything else is left as it is.          *)
to_hiragana(s) == [i \in 1..Len(s) |-> HiraOf(Lower(s[i]))]
to_katakana(s) == [i \in 1..Len(s) |-> KataOf(Lower(s[i]))]

ApplyKana(fn, s) == IF fn = "to_hiragana" THEN to_hiragana(s) ELSE to_katakana(s)

(* ------------------------------------------------------------------ *)
(* Option values.                                                       *)
(* ------------------------------------------------------------------ *)
FieldChoices == {"auto", "kanji", "reading", "gloss"}
ExtentChoices == {"whole", "beginning", "word", "partial", "auto"}
ShortCommands == {"version", "list_abbrevs", "abbrev"}
(* --frequent is only copied into every condition *)
FrequentChoices == BOOLEAN
None == [none |-> TRUE]

(* ------------------------------------------------------------------ *)
(* Condition generation (pure part of run).                             *)
(* ------------------------------------------------------------------ *)

(* args.extent after the adjustment for kanji/reading *)
NormExtent(field, extent) ==
    IF extent = "word" /\ field \in {"kanji", "reading"} THEN "whole" ELSE extent

(* variant: the romaji test made before the Latin test *)
FieldsFor_RomajiFirst(field, q) ==
    IF field = "auto"
    THEN IF is_romaji(q) THEN <<"reading", "gloss", "kanji">>
         ELSE IF is_latin(q) THEN <<"gloss", "reading", "kanji">>
         ELSE IF is_kana(q) THEN <<"reading", "kanji", "gloss">>
         ELSE <<"kanji", "reading", "gloss">>
    ELSE <<field>>

(* fields: classification of the query when the field is auto *)
FieldsFor(field, q) ==
    IF field = "auto"
    THEN IF is_latin(q) THEN <<"gloss", "reading", "kanji">>
         ELSE IF is_romaji(q) THEN <<"reading", "gloss", "kanji">>
         ELSE IF is_kana(q) THEN <<"reading", "kanji", "gloss">>
         ELSE <<"kanji", "reading", "gloss">>
    ELSE <<field>>

(* variant: a given extent does not narrow the extents tried *)
ExtentsFor_AlwaysAll(extent) ==
    <<"whole", "word", "partial">>

ExtentsFor(extent) ==
    IF extent /= "auto" THEN <<extent>> ELSE <<"whole", "word", "partial">>

(* variant: the regexp attempt made before the literal one *)
RegexpFlagsFor_RegexpFirst(regexp, q) ==
    IF regexp THEN <<TRUE>>
    ELSE IF has_regexp_special(q) THEN <<TRUE, FALSE>>
    ELSE <<FALSE>>

RegexpFlagsFor(regexp, q) ==
    IF regexp THEN <<TRUE>>
    ELSE IF has_regexp_special(q) THEN <<FALSE, TRUE>>
    ELSE <<FALSE>>

(* variant: the useless combination neither skipped nor adjusted *)
CondsFor_NoAdjust(sa, args_extent, regexp, extent, field) ==
    << [sa EXCEPT !.extent = extent, !.field = field, !.regexp = regexp] >>

(* body of the innermost loop: the conditions appended for one          *)
(* (regexp, extent, field) combination, none when it is skipped         *)
CondsFor(sa, args_extent, regexp, extent, field) ==
    IF extent = "word" /\ field /= "gloss"
    THEN IF args_extent = "auto"
         THEN <<>>
         ELSE << [sa EXCEPT !.extent = "whole", !.field = field, !.regexp = regexp] >>
    ELSE << [sa EXCEPT !.extent = extent, !.field = field, !.regexp = regexp] >>

(* variant: the loop over fields outside the loop over extents *)
LoopOrder_FieldsOutside(i, nr, ne, nf) ==
    [r |-> ((i - 1) \div (ne * nf)) + 1,
     f |-> (((i - 1) \div ne) % nf) + 1,
     e |-> ((i - 1) % ne) + 1]

(* the i-th combination visited by the nested loops                     *)
(* for regexp in regexp_flags: for extent in extents: for field in fields *)
LoopOrder(i, nr, ne, nf) ==
    [r |-> ((i - 1) \div (ne * nf)) + 1,
     e |-> (((i - 1) \div nf) % ne) + 1,
     f |-> ((i - 1) % nf) + 1]

RECURSIVE BuildFrom(_, _, _, _, _, _)
BuildFrom(i, sa, args_extent, regexp_flags, extents, fields) ==
    LET nr == Len(regexp_flags)
        ne == Len(extents)
        nf == Len(fields)
    IN  IF i > nr * ne * nf THEN <<>>
        ELSE LET t == LoopOrder(i, nr, ne, nf)
             IN  CondsFor(sa, args_extent, regexp_flags[t.r], extents[t.e], fields[t.f])
                 \o BuildFrom(i + 1, sa, args_extent, regexp_flags, extents, fields)

BuildConditions(sa, args_extent, regexp_flags, extents, fields) ==
    BuildFrom(1, sa, args_extent, regexp_flags, extents, fields)

(* ------------------------------------------------------------------ *)
(* Romaji queries: kana guesses inserted before each reading condition. *)
(* ------------------------------------------------------------------ *)
(* variant: hiragana first whatever the case of the query *)
KanaGuess_HiraganaFirst(q) ==
    <<"to_hiragana", "to_katakana">>

KanaGuess(q) ==
    IF HasUpper(q) THEN <<"to_katakana", "to_hiragana">>
    ELSE <<"to_hiragana", "to_katakana">>

(* list.index(x): position of the first element equal to x *)
IndexOf(list, x) ==
    CHOOSE i \in 1..Len(list) :
        /\ list[i] = x
        /\ \A j \in 1..(i - 1) : list[j] /= x

(* variant: the new condition inserted after the old one *)
InsertBefore_After(list, oldcond, newcond) ==
    LET p == IndexOf(list, oldcond)
    IN  SubSeq(list, 1, p) \o <<newcond>> \o SubSeq(list, p + 1, Len(list))

(* list.insert(list.index(oldcond), newcond) *)
InsertBefore(list, oldcond, newcond) ==
    LET p == IndexOf(list, oldcond)
    IN  SubSeq(list, 1, p - 1) \o <<newcond>> \o SubSeq(list, p, Len(list))

(* for romaji in expand_romaji(oldcond['query']): insert kanafn(romaji) *)
RECURSIVE InsertVariants(_, _, _, _, _)
InsertVariants(list, oldcond, kanafn, variants, i) ==
    IF i > Len(variants) THEN list
    ELSE InsertVariants(
             InsertBefore(list, oldcond,
                          [oldcond EXCEPT !.query = ApplyKana(kanafn, variants[i])]),
             oldcond, kanafn, variants, i + 1)

(* for kanafn in kana_guess: ... *)
RECURSIVE InsertGuesses(_, _, _, _)
InsertGuesses(list, oldcond, kana_guess, k) ==
    IF k > Len(kana_guess) THEN list
    ELSE InsertGuesses(
             InsertVariants(list, oldcond, kana_guess[k],
                            expand_romaji(oldcond.query), 1),
             oldcond, kana_guess, k + 1)

(* for oldcond in conditions: if oldcond['field'] == 'reading': ... *)
RECURSIVE SpliceFrom(_, _, _, _)
SpliceFrom(new_conditions, conditions, kana_guess, n) ==
    IF n > Len(conditions) THEN new_conditions
    ELSE SpliceFrom(
             IF conditions[n].field = "reading"
             THEN InsertGuesses(new_conditions, conditions[n], kana_guess, 1)
             ELSE new_conditions,
             conditions, kana_guess, n + 1)

RomajiConditions(args_field, q, conditions) ==
    IF args_field \in {"auto", "reading"} /\ is_romaji(q)
    THEN SpliceFrom(conditions, conditions, KanaGuess(q), 1)
    ELSE conditions

(* ------------------------------------------------------------------ *)
(* State of one call of run(query).                                     *)
(* ------------------------------------------------------------------ *)
VARIABLES
    query,          \* the parameter of run: a list of words
    args,           \* the argparse Namespace (None before parse_args)
    extent_opt,     \* the --extent value as given on the command line
    pc,             \* position in run
    exit_status,    \* argument of sys.exit, None while running
    conditions,     \* the list of search conditions
    generated,      \* conditions as they were before the romaji step
    tried,          \* calls of the matcher, in order: the condition and
                    \* whether the identifiers returned were non-empty
    printed,        \* what the run printed before leaving through sys.exit
    chosen_search,  \* first element of the pair returned by search.guess
    ent_seqs,       \* second element of that pair
    result          \* value returned by run

vars == <<query, args, extent_opt, pc, exit_status, conditions, generated,
          tried, printed, chosen_search, ent_seqs, result>>

Init ==
    /\ query \in QueryArgs
    /\ args = None
    /\ extent_opt = None
    /\ pc = "parse"
    /\ exit_status = None
    /\ conditions = <<>>
    /\ generated = <<>>
    /\ tried = <<>>
    /\ printed = "nothing"
    /\ chosen_search = None
    /\ ent_seqs = <<>>
    /\ result = None

(* parse_args, the forced output options, the join of the query words   *)
(* and the case-sensitivity guess                                       *)
ParseArgs ==
    /\ pc = "parse"
    /\ \E field \in FieldChoices, extent \in ExtentChoices, regexp \in BOOLEAN,
          case_sensitive \in BOOLEAN, frequent \in FrequentChoices :
          /\ args' = [field |-> field,
                      extent |-> extent,
                      regexp |-> regexp,
                      case_sensitive |-> case_sensitive \/ HasUpper(Join(query)),
                      frequent |-> frequent,
                      query |-> Join(query)]
          /\ extent_opt' = extent
    /\ pc' = "config"
    /\ UNCHANGED <<query, exit_status, conditions, generated, tried, printed,
                   chosen_search, ent_seqs, result>>

Exit(status, output) ==
    /\ pc' = "exit"
    /\ exit_status' = status
    /\ printed' = output
    /\ UNCHANGED <<query, args, extent_opt, conditions, generated, tried,
                   chosen_search, ent_seqs, result>>

(* if not config: ... sys.exit(2) *)
NoConfig ==
    /\ pc = "config"
    /\ Exit(2, "config_error")

(* database.opendb raised DatabaseAccessError *)
OpenDbFailed ==
    /\ pc = "config"
    /\ Exit(2, "database_error")

OpenDb ==
    /\ pc = "config"
    /\ pc' = "short"
    /\ UNCHANGED <<query, args, extent_opt, exit_status, conditions, generated,
                   tried, printed, chosen_search, ent_seqs, result>>

(* --version, --list-abbrevs or --abbrev was given: print and sys.exit(0) *)
ShortCommand ==
    /\ pc = "short"
    /\ \E short \in ShortCommands : Exit(0, short)

(* variant: the empty query not recognised *)
IsEmptyQuery_Never(q) == FALSE

(* if args.query == '' *)
IsEmptyQuery(q) == q = <<>>

(* ... : print_help, sys.exit(2) *)
EmptyQuery ==
    /\ pc = "short"
    /\ IsEmptyQuery(args.query)
    /\ Exit(2, "help")

(* search_args: the Namespace restricted to the keys of search_by *)
SearchArgs(a) ==
    [field |-> a.field, query |-> a.query, extent |-> a.extent,
     regexp |-> a.regexp, case_sensitive |-> a.case_sensitive,
     frequent |-> a.frequent]

(* the extent adjustment and the nested loops building conditions *)
Generate ==
    /\ pc = "short"
    /\ ~IsEmptyQuery(args.query)
    /\ LET a == [args EXCEPT !.extent = NormExtent(args.field, args.extent)]
           conds == BuildConditions(SearchArgs(a), a.extent,
                                    RegexpFlagsFor(a.regexp, a.query),
                                    ExtentsFor(a.extent),
                                    FieldsFor(a.field, a.query))
       IN  /\ args' = a
           /\ conditions' = conds
           /\ generated' = conds
    /\ pc' = "romaji"
    /\ UNCHANGED <<query, extent_opt, exit_status, tried, printed, chosen_search,
                   ent_seqs, result>>

(* deal with romaji queries *)
Romaji ==
    /\ pc = "romaji"
    /\ conditions' = RomajiConditions(args.field, args.query, conditions)
    /\ pc' = "guess"
    /\ UNCHANGED <<query, args, extent_opt, exit_status, generated, tried,
                   printed, chosen_search, ent_seqs, result>>

(* variant: the list walked from its end *)
GuessNext_Reversed(conds, done) == Len(conds) - done

(* search.guess: the next condition of the list is handed to the        *)
(* matcher; a non-empty result ends the cascade with that condition,    *)
(* and run formats the entries found and returns them                   *)
GuessNext(conds, done) == done + 1

(* what run returns for the outcome of search.guess *)
Presented(chosen, ids) ==
    IF chosen /= None THEN [out |-> ids, search_params |-> chosen] ELSE None

GuessTry ==
    /\ pc = "guess"
    /\ Len(tried) < Len(conditions)
    /\ LET c == conditions[GuessNext(conditions, Len(tried))]
       IN  \E found \in BOOLEAN :
              /\ tried' = Append(tried, [condition |-> c, found |-> found])
              /\ IF found
                 THEN /\ chosen_search' = c
                      /\ ent_seqs' = <<Len(tried) + 1>>
                      /\ result' = Presented(c, <<Len(tried) + 1>>)
                      /\ pc' = "returned"
                 ELSE /\ UNCHANGED <<chosen_search, ent_seqs, result>>
                      /\ pc' = "guess"
    /\ UNCHANGED <<query, args, extent_opt, exit_status, conditions, generated,
                   printed>>

(* search.guess: list exhausted, returns (None, []); run returns None *)
GuessNone ==
    /\ pc = "guess"
    /\ Len(tried) = Len(conditions)
    /\ result' = Presented(chosen_search, ent_seqs)
    /\ pc' = "returned"
    /\ UNCHANGED <<query, args, extent_opt, exit_status, conditions, generated,
                   tried, printed, chosen_search, ent_seqs>>

Next ==
    \/ ParseArgs
    \/ NoConfig
    \/ OpenDbFailed
    \/ OpenDb
    \/ ShortCommand
    \/ EmptyQuery
    \/ Generate
    \/ Romaji
    \/ GuessTry
    \/ GuessNone

Spec == Init /\ [][Next]_vars

(* ------------------------------------------------------------------ *)
(* Properties.                                                          *)
(* ------------------------------------------------------------------ *)
Generated == pc \in {"romaji", "guess", "returned"}
Final == pc \in {"guess", "returned"}
Guessed == pc = "returned"

Shape(c) == <<c.field, c.extent>>

(* C1: the cascade hands the conditions to the matcher strictly in list  *)
(* order, stops at the first non-empty result and returns that condition *)
(* with that result: the call at position i is for conditions[i], every  *)
(* call before the last came back empty, no call follows a non-empty     *)
(* one, and a winner is the condition of the last call.                  *)
C1_FirstNonEmptyWins ==
    Final =>
        /\ Len(tried) <= Len(conditions)
        /\ \A i \in 1..Len(tried) :
              /\ tried[i].condition = conditions[i]
              /\ (i < Len(tried) => ~tried[i].found)
        /\ (Len(tried) > 0 /\ tried[Len(tried)].found) =>
              /\ Guessed
              /\ chosen_search = conditions[Len(tried)]
              /\ ent_seqs /= <<>>
        /\ (Guessed /\ ~(Len(tried) > 0 /\ tried[Len(tried)].found)) =>
              /\ Len(tried) = Len(conditions)
              /\ chosen_search = None
              /\ ent_seqs = <<>>

C1_Witness ==
    /\ pc = "returned"
    /\ Len(tried) = 3
    /\ tried[3].found
    /\ Len(conditions) > 3
    /\ chosen_search = conditions[3]
    /\ conditions[3] /= conditions[1]

(* ---- C2 ---- *)
PureLatinAuto ==
    /\ Generated
    /\ is_latin(args.query)
    /\ args.field = "auto"
    /\ extent_opt = "auto"

IsTried(i, field, extent) ==
    /\ tried[i].condition.field = field
    /\ tried[i].condition.extent = extent

(* C2 as stated: for a pure-Latin query with field and extent auto the   *)
(* first condition tried is gloss/whole, and gloss/word and gloss/partial *)
(* are both tried before any reading or kanji condition.                 *)
C2_GlossExtentsBeforeOtherFields ==
    PureLatinAuto =>
        /\ <<generated[1].field, generated[2].field, generated[3].field>>
              = <<"gloss", "reading", "kanji">>
        /\ Len(tried) > 0 => IsTried(1, "gloss", "whole")
        /\ \A i \in 1..Len(tried) :
              tried[i].condition.field \in {"reading", "kanji"} =>
                  /\ \E j \in 1..(i - 1) : IsTried(j, "gloss", "word")
                  /\ \E j \in 1..(i - 1) : IsTried(j, "gloss", "partial")

(* position of a condition in the order of one regexp pass *)
PassRank(c) ==
    CASE Shape(c) = <<"gloss", "whole">> -> 1
      [] Shape(c) = <<"reading", "whole">> -> 2
      [] Shape(c) = <<"kanji", "whole">> -> 3
      [] Shape(c) = <<"gloss", "word">> -> 4
      [] Shape(c) = <<"gloss", "partial">> -> 5
      [] Shape(c) = <<"reading", "partial">> -> 6
      [] Shape(c) = <<"kanji", "partial">> -> 7
      [] OTHER -> 0

(* C2 amended: for a pure-Latin query with field and extent auto the     *)
(* field order is (gloss, reading, kanji), the first condition tried is  *)
(* gloss/whole, and within one regexp pass the cascade goes through      *)
(* gloss/whole, reading/whole, kanji/whole, gloss/word, gloss/partial,   *)
(* reading/partial, kanji/partial in that order, skipping none.          *)
C2_WholeExtentBeforeNarrowerGloss ==
    PureLatinAuto =>
        /\ <<generated[1].field, generated[2].field, generated[3].field>>
              = <<"gloss", "reading", "kanji">>
        /\ Len(tried) > 0 => IsTried(1, "gloss", "whole")
        /\ \A i \in 1..Len(tried) : PassRank(tried[i].condition) > 0
        /\ \A i \in 1..(Len(tried) - 1) :
              LET c == tried[i].condition
                  d == tried[i + 1].condition
              IN  IF c.regexp = d.regexp
                  THEN PassRank(d) \in {PassRank(c), PassRank(c) + 1}
                  ELSE /\ ~c.regexp /\ d.regexp
                       /\ PassRank(c) = 7 /\ PassRank(d) = 1

C2_Witness ==
    /\ PureLatinAuto
    /\ pc = "returned"
    /\ Len(tried) > 0
    /\ IsTried(Len(tried), "kanji", "partial")
    /\ \E i \in 1..Len(tried) : IsTried(i, "gloss", "word")
    /\ \E i \in 1..Len(tried) : tried[i].condition.query /= args.query

(* ---- C3 ---- *)
WordKanji ==
    /\ Generated
    /\ extent_opt = "word"
    /\ args.field = "kanji"

(* C3 as stated: with extent word and field kanji the condition list has *)
(* exactly one condition, with field kanji and extent whole, for every   *)
(* query and whether or not regexp is forced.                            *)
C3_ExactlyOneCondition ==
    WordKanji =>
        /\ Len(conditions) = 1
        /\ Shape(conditions[1]) = <<"kanji", "whole">>

(* C3 amended: with extent word and field kanji every condition has      *)
(* field kanji and extent whole, and there is one condition per regexp   *)
(* mode: exactly one when regexp is forced or the query has no regexp    *)
(* special character, otherwise exactly two, the literal one first.      *)
C3_OneConditionPerRegexpMode ==
    WordKanji =>
        /\ \A i \in 1..Len(conditions) : Shape(conditions[i]) = <<"kanji", "whole">>
        /\ IF args.regexp \/ ~has_regexp_special(args.query)
           THEN /\ Len(conditions) = 1
                /\ conditions[1].regexp = args.regexp
           ELSE /\ Len(conditions) = 2
                /\ ~conditions[1].regexp
                /\ conditions[2].regexp

C3_Witness ==
    /\ WordKanji
    /\ pc = "returned"
    /\ Len(conditions) = 2
    /\ Len(tried) = 2

(* ---- C4, C10 ---- *)
RomajiCase ==
    /\ Final
    /\ is_romaji(args.query)
    /\ args.field \in {"auto", "reading"}

Variants == expand_romaji(args.query)
BlockLen == 2 * Len(Variants)
ReadingsUpTo(n) == Cardinality({i \in 1..n : generated[i].field = "reading"})
(* where the n-th generated condition has to be in the final list *)
PosOf(n) == n + BlockLen * ReadingsUpTo(n)
KanaQueries ==
    {ApplyKana(fn, Variants[i]) :
        fn \in {"to_hiragana", "to_katakana"}, i \in 1..Len(Variants)}

(* C4: for a romaji query with field auto or reading, every generated    *)
(* condition is still in the final list in its order, and the kana       *)
(* renderings of a reading condition (same field, extent, regexp and     *)
(* case sensitivity, kana query) fill exactly the places between the     *)
(* generated condition before it and the reading condition itself.       *)
C4_KanaSplicedImmediatelyBefore ==
    RomajiCase =>
        LET width == BlockLen
            kana == KanaQueries
            pos == [n \in 1..Len(generated) |-> PosOf(n)]
        IN  /\ Len(conditions) = Len(generated) + width * ReadingsUpTo(Len(generated))
            /\ \A n \in 1..Len(generated) :
                  /\ conditions[pos[n]] = generated[n]
                  /\ generated[n].field = "reading" =>
                        LET block == (pos[n] - width)..(pos[n] - 1)
                        IN  /\ \A j \in block :
                                  /\ conditions[j].query \in kana
                                  /\ conditions[j] =
                                        [generated[n] EXCEPT !.query = conditions[j].query]
                            /\ \A k \in kana : \E j \in block : conditions[j].query = k
                            /\ n > 1 => pos[n - 1] < pos[n] - width

C4_Witness ==
    /\ RomajiCase
    /\ pc = "returned"
    /\ args.field = "auto"
    /\ extent_opt = "auto"
    /\ Len(conditions) > Len(generated)
    /\ \E n \in 2..Len(generated) :
          /\ generated[n].field = "reading"
          /\ Len(tried) >= PosOf(n)
          /\ tried[PosOf(n) - 1].condition.query /= args.query

(* C10: in the block spliced before one reading condition the renderings *)
(* of the first script for all variants come first, then those of the    *)
(* second script; the first script is hiragana without an uppercase      *)
(* letter in the query and katakana with one; within a script the        *)
(* variants are in the order of expand_romaji.                           *)
C10_ScriptThenVariantOrder ==
    RomajiCase =>
        LET order == IF HasUpper(args.query)
                     THEN <<"to_katakana", "to_hiragana">>
                     ELSE <<"to_hiragana", "to_katakana">>
            variants == Variants
            V == Len(variants)
            rendered == [k \in 1..2 |-> [i \in 1..V |-> ApplyKana(order[k], variants[i])]]
        IN  \A n \in 1..Len(generated) :
                generated[n].field = "reading" =>
                    LET start == PosOf(n) - 2 * V
                    IN  \A k \in 1..2 : \A i \in 1..V :
                            conditions[start + (k - 1) * V + (i - 1)]
                                = [generated[n] EXCEPT !.query = rendered[k][i]]

C10_Witness ==
    /\ RomajiCase
    /\ pc = "returned"
    /\ HasUpper(args.query)
    /\ Len(Variants) >= 2
    /\ \E n \in 1..Len(generated) :
          /\ generated[n].field = "reading"
          /\ Len(tried) >= PosOf(n)
          /\ conditions[PosOf(n) - BlockLen].query = to_katakana(Variants[1])
          /\ conditions[PosOf(n) - 1].query = to_hiragana(Variants[Len(Variants)])

(* ---- C5 ---- *)
FieldsWanted ==
    IF args.field = "auto" THEN {"kanji", "reading", "gloss"} ELSE {args.field}

AllConditions == {conditions[i] : i \in 1..Len(conditions)}
    \cup {generated[i] : i \in 1..Len(generated)}

(* C5: no condition list has a condition with extent word and field      *)
(* kanji or reading; with extent auto that combination is skipped (the   *)
(* field keeps its single whole-extent condition per regexp mode), and   *)
(* with word requested every kanji or reading field wanted gets its      *)
(* condition with extent whole.                                          *)
C5_NoWordForKanjiOrReading ==
    Generated =>
        /\ \A c \in AllConditions :
              ~(c.extent = "word" /\ c.field \in {"kanji", "reading"})
        /\ extent_opt = "auto" =>
              \A i, j \in 1..Len(generated) :
                  (/\ generated[i].field = generated[j].field
                   /\ generated[i].regexp = generated[j].regexp
                   /\ generated[i].extent = "whole"
                   /\ generated[j].extent = "whole") => i = j
        /\ extent_opt = "word" =>
              \A f \in FieldsWanted \ {"gloss"} :
                  \E i \in 1..Len(generated) : Shape(generated[i]) = <<f, "whole">>

C5_Witness ==
    /\ pc = "returned"
    /\ extent_opt = "word"
    /\ args.field = "auto"
    /\ \E i \in 1..Len(tried) : Shape(tried[i].condition) = <<"kanji", "whole">>
    /\ \E i \in 1..Len(tried) : Shape(tried[i].condition) = <<"gloss", "word">>

(* ---- C6 ---- *)
(* C6: with extent auto all four extents whole, beginning, word and      *)
(* partial are among the conditions tried when nothing matches.          *)
C6_AutoTriesAllFourExtents ==
    (pc = "returned" /\ extent_opt = "auto" /\ chosen_search = None) =>
        \A e \in {"whole", "beginning", "word", "partial"} :
            \E i \in 1..Len(tried) : tried[i].condition.extent = e

(* ---- C7 ---- *)
Running == pc \in {"parse", "config", "short"}

C8_FieldOrderByClassification ==
    Generated =>
        IF args.field = "auto"
        THEN LET order == <<generated[1].field, generated[2].field, generated[3].field>>
                 q == args.query
             IN  /\ {order[1], order[2], order[3]} = {"kanji", "reading", "gloss"}
                 /\ is_latin(q) => order = <<"gloss", "reading", "kanji">>
                 /\ (~is_latin(q) /\ is_romaji(q)) => order = <<"reading", "gloss", "kanji">>
                 /\ (~is_romaji(q) /\ is_kana(q)) => order = <<"reading", "kanji", "gloss">>
                 /\ (~is_romaji(q) /\ ~is_kana(q)) => order = <<"kanji", "reading", "gloss">>
                 /\ \A i, j \in 1..Len(generated) :
                       (/\ i < j
                        /\ generated[i].extent = generated[j].extent
                        /\ generated[i].regexp = generated[j].regexp) =>
                           \E a, b \in 1..3 :
                               /\ a < b
                               /\ order[a] = generated[i].field
                               /\ order[b] = generated[j].field
        ELSE \A c \in AllConditions : c.field = args.field

C8_Witness ==
    /\ pc = "returned"
    /\ args.field = "auto"
    /\ ~is_latin(args.query)
    /\ is_romaji(args.query)
    /\ Len(tried) >= 3
    /\ tried[1].condition.field = "reading"
    /\ tried[Len(tried)].condition.field = "kanji"

(* ---- C9 ---- *)
(* C9: in the final list every literal condition precedes every regexp   *)
(* condition; the list is all regexp when regexp is forced, all literal  *)
(* when it is not forced and the query has no regexp special character,  *)
(* and has both kinds when it is not forced and the query has one.       *)
C9_LiteralBeforeRegexp ==
    Final =>
        /\ \A i, j \in 1..Len(conditions) :
              (~conditions[i].regexp /\ conditions[j].regexp) => i < j
        /\ args.regexp => \A i \in 1..Len(conditions) : conditions[i].regexp
        /\ (~args.regexp /\ ~has_regexp_special(args.query)) =>
              \A i \in 1..Len(conditions) : ~conditions[i].regexp
        /\ (~args.regexp /\ has_regexp_special(args.query)) =>
              /\ \E i \in 1..Len(conditions) : ~conditions[i].regexp
              /\ \E i \in 1..Len(conditions) : conditions[i].regexp

C9_Witness ==
    /\ RomajiCase
    /\ pc = "returned"
    /\ ~args.regexp
    /\ has_regexp_special(args.query)
    /\ Len(conditions) > Len(generated)
    /\ Len(tried) = Len(conditions)
    /\ \E i \in 1..Len(tried) :
          /\ tried[i].condition.regexp
          /\ tried[i].condition.query /= args.query

====
